---- MODULE Spec2Model ----
(***************************************************************************)
(* Model of the ESG project selection engine: ProjectFilter.apply_filters, *)
(* ProjectOptimizer (LP relaxation, 0.5 thresholding, the two greedy       *)
(* procedures, the last-run diagnostics) and the pipeline that shares one  *)
(* optimizer between invocations.                                          *)
(*                                                                         *)
(* Numbers are integers; a quotient (an efficiency ratio, an LP value, the *)
(* budget utilization) is kept as a pair num/den and compared by cross     *)
(* multiplication, so no rounding is introduced.                           *)
(***************************************************************************)
EXTENDS Integers, Sequences, FiniteSets, TLC

VARIABLES
    df,                     \* the scored subset handed to the optimizer
    optimization_results,   \* ProjectOptimizer.optimization_results
    lastCall,               \* inputs, path and return value of the latest optimize_projects
    summary,                \* what the latest get_optimization_summary returned
    called,                 \* the optimize_projects call under study has been made
    greedyRun,              \* latest isolated run of one of the greedy procedures
    catalog,                \* the catalog handed to apply_filters
    filterRun,              \* latest apply_filters call: its filters and its result
    invocations,            \* the run_pipeline invocations in progress on one pipeline
    heap,                   \* the collections that exist, by object identity
    stageCall,              \* latest call of a stage: its input and output objects
    scoreRun,               \* latest score_projects and rank_projects calls
    postRun                 \* latest optimize_with_constraints call

optVars == <<df, optimization_results, lastCall, summary, called, greedyRun>>
filterVars == <<catalog, filterRun>>
pipeVars == <<invocations>>
stageVars == <<heap, stageCall>>
scoreVars == <<scoreRun>>
postVars == <<postRun>>
auxVars == <<stageVars, scoreVars, postVars>>
vars == <<optVars, filterVars, pipeVars, auxVars>>

(***************************************************************************)
(* Bounds of the model.                                                    *)
(***************************************************************************)
MaxRecords == 2
MaxCost == 3
MaxScore == 2
MaxBudget == 3
MaxPredicates == 2

(***************************************************************************)
(* Quotients.                                                              *)
(***************************************************************************)
Q(n, d) == [num |-> n, den |-> d]
Zero == Q(0, 1)
One == Q(1, 1)
\* a >= b for quotients with positive denominators
QGe(a, b) == a.num * b.den >= b.num * a.den
QLe(a, b) == QGe(b, a)

(***************************************************************************)
(* Scored subsets: a sequence of rows, each with the cost column           *)
(* (Total_Investment_USD) and the score column (Composite_Score).          *)
(***************************************************************************)
Row(c, s) == [cost |-> c, score |-> s]
Rows == {Row(c, s) : c \in 0..MaxCost, s \in 0..MaxScore}
SeqsUpTo(S, n) == UNION {[1..k -> S] : k \in 1..n}

\* Scenario of the three records A, B, C with budget 110.
ScenarioDf == <<Row(100, 90), Row(50, 40), Row(60, 70)>>
ScenarioBudget == 110

Dfs == SeqsUpTo(Rows, MaxRecords) \cup {ScenarioDf}
EmptyDf == <<>>
Budgets == 0..MaxBudget \cup {ScenarioBudget}

Idx(d) == 1..Len(d)
costs(d) == [i \in Idx(d) |-> d[i].cost]
scores(d) == [i \in Idx(d) |-> d[i].score]

RECURSIVE SumOver(_, _)
SumOver(f, S) ==
    IF S = {} THEN 0
    ELSE LET i == CHOOSE j \in S : TRUE IN f[i] + SumOver(f, S \ {i})

RECURSIVE SeqSum(_, _)
\* sum of field values of a sequence of selected rows
SeqSum(sel, field) ==
    IF sel = <<>> THEN 0
    ELSE (IF field = "cost" THEN Head(sel).cost ELSE Head(sel).score)
         + SeqSum(Tail(sel), field)

(***************************************************************************)
(* Greedy procedures.                                                      *)
(***************************************************************************)
\* efficiency ratio of _greedy_selection: np.divide(scores, costs,
\* out=zeros, where=costs != 0)
selection_efficiency(cs, ss) ==
    [i \in DOMAIN cs |-> IF cs[i] # 0 THEN Q(ss[i], cs[i]) ELSE Zero]

\* efficiency ratio of _greedy_fallback: score / cost.replace(0, 1)
fallback_efficiency(cs, ss) ==
    [i \in DOMAIN cs |-> Q(ss[i], IF cs[i] = 0 THEN 1 ELSE cs[i])]

Perms(S) ==
    {p \in [1..Cardinality(S) -> S] : \A i, j \in DOMAIN p : i # j => p[i] # p[j]}

AscendingOrders(eff) ==
    {p \in Perms(DOMAIN eff) :
        \A i, j \in DOMAIN p : i < j => QLe(eff[p[i]], eff[p[j]])}

\* The results a descending sort by efficiency can give.  np.argsort(...)[::-1]
\* and sort_values(ascending=False) use an unstable sort, so the order among
\* equal efficiencies is not fixed by the code: every order that is
\* descending in efficiency is possible.
DescendingOrders(eff) ==
    {p \in Perms(DOMAIN eff) :
        \A i, j \in DOMAIN p : i < j => QGe(eff[p[i]], eff[p[j]])}

admits_mut(cost, remaining_budget) == cost <= remaining_budget + 1
\* the admission test of both greedy loops
admits(cost, remaining_budget) == cost <= remaining_budget

RECURSIVE greedy_loop(_, _, _, _, _)
\* the for loop over the sorted indices: visited is the sequence of indices
\* already considered, in order; selected the admitted ones, in order
greedy_loop(order, k, cs, remaining_budget, selected) ==
    IF k > Len(order)
    THEN [selected |-> selected, remaining_budget |-> remaining_budget]
    ELSE LET idx == order[k] IN
         IF admits(cs[idx], remaining_budget)
         THEN greedy_loop(order, k + 1, cs, remaining_budget - cs[idx],
                          Append(selected, idx))
         ELSE greedy_loop(order, k + 1, cs, remaining_budget, selected)

greedy_selection_mut(cs, ss, budget, order) ==
    greedy_loop(order, 2, cs, budget, <<>>)
\* _greedy_selection(costs, scores, budget) under the sort result `order`
greedy_selection(cs, ss, budget, order) ==
    greedy_loop(order, 1, cs, budget, <<>>)

\* _greedy_fallback(df, budget, ...) under the sort result `order`
greedy_fallback(d, budget, order) ==
    greedy_loop(order, 1, costs(d), budget, <<>>)

Range(s) == {s[i] : i \in DOMAIN s}

(***************************************************************************)
(* The linear program of optimize_projects:                                *)
(*     minimize c.x  subject to  costs.x <= budget,  0 <= x_i <= 1.        *)
(* linprog(method='highs') returns an optimal basic solution, that is an   *)
(* optimal vertex of the feasible polytope.  With one inequality row a     *)
(* vertex has every x_i in {0, 1} except at most one, and when one x_k is  *)
(* fractional the budget row is tight.                                     *)
(***************************************************************************)
Methods == {"maximize_score", "minimize_risk"}

\* objective coefficients: c = -scores for maximize_score, c = scores otherwise
objective(ss, method) ==
    [i \in DOMAIN ss |-> IF method = "maximize_score" THEN 0 - ss[i] ELSE ss[i]]

within_budget_mut(total, budget) == total <= budget + 1
\* the inequality row A_ub x <= b_ub
within_budget(total, budget) == total <= budget

XFull(I, S) == [i \in I |-> IF i \in S THEN One ELSE Zero]
XFrac(I, S, k, n, d) ==
    [i \in I |-> IF i \in S THEN One ELSE IF i = k THEN Q(n, d) ELSE Zero]

lp_vertices(cs, budget) ==
    LET I == DOMAIN cs IN
    {XFull(I, S) : S \in {T \in SUBSET I : within_budget(SumOver(cs, T), budget)}}
    \cup
    UNION {
        {XFrac(I, S, k, budget - SumOver(cs, S), cs[k]) :
            k \in {j \in I \ S : /\ cs[j] > 0
                                 /\ budget - SumOver(cs, S) > 0
                                 /\ budget - SumOver(cs, S) < cs[j]}}
        : S \in SUBSET I}

\* common denominator of a vertex (at most one x_i is fractional)
RECURSIVE XDen(_, _)
XDen(x, S) ==
    IF S = {} THEN 1
    ELSE LET i == CHOOSE j \in S : TRUE IN x[i].den * XDen(x, S \ {i})

\* c.x as a quotient
lp_value(c, x) ==
    LET D == XDen(x, DOMAIN x)
        term == [i \in DOMAIN x |-> c[i] * x[i].num * (D \div x[i].den)]
    IN Q(SumOver(term, DOMAIN x), D)

lp_optimal(c, cs, budget) ==
    LET V == lp_vertices(cs, budget) IN
    {x \in V : \A y \in V : QLe(lp_value(c, x), lp_value(c, y))}

\* result.success: the program is feasible exactly when the budget is not
\* negative (x = 0 is then feasible, costs being non-negative)
lp_feasible(cs, budget) == lp_vertices(cs, budget) # {}

threshold_mut(xi) == 2 * xi.num < xi.den
\* selection > 0.5
threshold(xi) == 2 * xi.num > xi.den

\* What the solver call can do besides returning an optimum: fail, by
\* reporting a failure status (result.success false) or by raising.  Both
\* lead to the same statement, return self._greedy_fallback(...).
SolverOutcomes == {"ok", "fail"}

(***************************************************************************)
(* ProjectFilter.apply_filters.                                            *)
(*                                                                         *)
(* A Python value is a number, a string (a sequence of characters) or a    *)
(* list of numbers and strings.  The catalog columns are                   *)
(* Total_Investment_USD (numbers) and Financial_Risk_Level (strings).      *)
(***************************************************************************)
PyNum(n) == [t |-> "num", n |-> n, s |-> <<>>, l |-> <<>>]
PyStr(chars) == [t |-> "str", n |-> 0, s |-> chars, l |-> <<>>]
PyList(items) == [t |-> "list", n |-> 0, s |-> <<>>, l |-> items]

Low == <<"L", "o", "w">>
Medium == <<"M", "e", "d", "i", "u", "m">>
High == <<"H", "i", "g", "h">>

Columns == {"Total_Investment_USD", "Financial_Risk_Level"}
CatalogRow(c, r) ==
    [Total_Investment_USD |-> PyNum(c), Financial_Risk_Level |-> PyStr(r)]
CatalogRows == {CatalogRow(c, r) : c \in 0..MaxCost, r \in {Low, High}}
Catalogs == SeqsUpTo(CatalogRows, MaxRecords)

\* df.columns of a frame with at least one row
columns_of(frame) == DOMAIN frame[1]

\* str.startswith
startswith(str, prefix) ==
    /\ Len(str) >= Len(prefix)
    /\ SubSeq(str, 1, Len(prefix)) = prefix

\* filter_value[k:]
strip_prefix(str, k) == SubSeq(str, k + 1, Len(str))

Digits == <<"0", "1", "2", "3", "4", "5", "6", "7", "8", "9">>
DigitValue(ch) == (CHOOSE i \in DOMAIN Digits : Digits[i] = ch) - 1
IsDigit(ch) == \E i \in DOMAIN Digits : Digits[i] = ch

RECURSIVE DigitsValue(_, _)
DigitsValue(str, acc) ==
    IF str = <<>> THEN acc
    ELSE DigitsValue(Tail(str), 10 * acc + DigitValue(Head(str)))

\* float(text) on the texts of the model, which are digit strings, digit
\* strings followed by ".0", or contain a letter: the number, or a ValueError
float(text) ==
    LET whole == IF Len(text) > 2 /\ SubSeq(text, Len(text) - 1, Len(text)) = <<".", "0">>
                 THEN SubSeq(text, 1, Len(text) - 2)
                 ELSE text
    IN IF whole # <<>> /\ \A i \in DOMAIN whole : IsDigit(whole[i])
       THEN [ok |-> TRUE, value |-> DigitsValue(whole, 0)]
       ELSE [ok |-> FALSE, value |-> 0]

\* == between a cell and a Python scalar: values of different types are unequal
py_eq(cell, v) == cell.t = v.t /\ cell.n = v.n /\ cell.s = v.s

\* an ordering comparison of a column with a number raises a TypeError when a
\* row holds a string
raises_on_order(frame, rows, column) ==
    \E k \in DOMAIN rows : frame[rows[k]][column].t = "str"

order_holds(op, a, b) ==
    CASE op = <<">", "=">> -> a >= b
      [] op = <<"<", "=">> -> a <= b
      [] op = <<">">> -> a > b
      [] op = <<"<">> -> a < b

\* filtered_df[mask]: the rows (indices into the frame) whose mask is true
RECURSIVE select_rows(_, _)
select_rows(rows, mask) ==
    IF rows = <<>> THEN <<>>
    ELSE (IF mask[Head(rows)] THEN <<Head(rows)>> ELSE <<>>)
         \o select_rows(Tail(rows), mask)

current_frame_mut(frame, rows) == [i \in DOMAIN frame |-> i]
\* filtered_df, the frame each filter is applied to: what the filters before
\* it have left
current_frame(frame, rows) == rows

\* the operator prefixes in the order the code tests them
first_operator_mut(str) ==
    IF startswith(str, <<">">>) THEN <<">">>
    ELSE IF startswith(str, <<"<">>) THEN <<"<">>
    ELSE IF startswith(str, <<">", "=">>) THEN <<">", "=">>
    ELSE IF startswith(str, <<"<", "=">>) THEN <<"<", "=">>
    ELSE IF startswith(str, <<"=", "=">>) THEN <<"=", "=">>
    ELSE <<>>
first_operator(str) ==
    IF startswith(str, <<">", "=">>) THEN <<">", "=">>
    ELSE IF startswith(str, <<"<", "=">>) THEN <<"<", "=">>
    ELSE IF startswith(str, <<">">>) THEN <<">">>
    ELSE IF startswith(str, <<"<">>) THEN <<"<">>
    ELSE IF startswith(str, <<"=", "=">>) THEN <<"=", "=">>
    ELSE <<>>

skip_unknown_mut(rows) == <<>>
\* the column is not in the frame: a warning, and the loop continues with the
\* frame as it is
skip_unknown(rows) == rows

\* one iteration of the loop over filters.items(): the rows left after the
\* filter (column, filter_value), or the rows unchanged when it is skipped
apply_one(frame, rows, column, filter_value) ==
    IF column \notin columns_of(frame) THEN skip_unknown(rows)
    ELSE
    LET cell == [i \in DOMAIN frame |-> frame[i][column]] IN
    IF filter_value.t = "str" THEN
        LET op == first_operator(filter_value.s)
            text == strip_prefix(filter_value.s, Len(op))
            parsed == float(text)
        IN IF op = <<>> THEN
               select_rows(current_frame(frame, rows), [i \in DOMAIN frame |-> py_eq(cell[i], filter_value)])
           ELSE IF op = <<"=", "=">> THEN
               LET value == IF parsed.ok THEN PyNum(parsed.value) ELSE PyStr(text)
               IN select_rows(current_frame(frame, rows), [i \in DOMAIN frame |-> py_eq(cell[i], value)])
           ELSE IF ~parsed.ok \/ raises_on_order(frame, rows, column) THEN rows
           ELSE select_rows(current_frame(frame, rows), [i \in DOMAIN frame |->
                                      order_holds(op, cell[i].n, parsed.value)])
    ELSE IF filter_value.t = "list" THEN
        select_rows(current_frame(frame, rows), [i \in DOMAIN frame |->
            \E k \in DOMAIN filter_value.l : py_eq(cell[i], filter_value.l[k])])
    ELSE
        select_rows(current_frame(frame, rows), [i \in DOMAIN frame |-> py_eq(cell[i], filter_value)])

RECURSIVE apply_loop(_, _, _)
apply_loop(frame, rows, filters) ==
    IF filters = <<>> THEN rows
    ELSE apply_loop(frame,
                    apply_one(frame, rows, Head(filters).column, Head(filters).value),
                    Tail(filters))

\* apply_filters(df, filters): filters is the dictionary as the sequence of
\* its items; the result is the sequence of the frame indices kept
apply_filters(frame, filters) ==
    apply_loop(frame, [i \in DOMAIN frame |-> i], filters)

\* validate_filters(filters, available_columns): the items whose column is
\* available
validate_filters(filters, available_columns) ==
    SelectSeq(filters, LAMBDA item : item.column \in available_columns)

NoFilterRun == [phase |-> "none", spec |-> <<>>, result |-> <<>>, base_result |-> <<>>]

(***************************************************************************)
(* ProjectOptimizer.optimize_projects and get_optimization_summary.        *)
(***************************************************************************)
NoResults == [present |-> FALSE, success |-> FALSE, total_cost |-> 0,
              total_score |-> 0, budget_utilization |-> Zero, num_projects |-> 0]

selected_projects_mut(d, sel, w) ==
    [k \in DOMAIN sel |->
        [idx |-> sel[k], cost |-> d[sel[k]].cost, score |-> d[sel[k]].score,
         Selection_Weight |-> w[k]]]
\* rows of d at the indices of sel (a sequence of indices), each with the
\* Selection_Weight column w[i]
selected_projects(d, sel, w) ==
    [k \in DOMAIN sel |->
        [idx |-> sel[k], cost |-> d[sel[k]].cost, score |-> d[sel[k]].score,
         Selection_Weight |-> w[sel[k]]]]

\* the indices of a boolean mask, in the order of the rows
RECURSIVE mask_indices(_, _, _)
mask_indices(S, i, n) ==
    IF i > n THEN <<>>
    ELSE (IF i \in S THEN <<i>> ELSE <<>>) \o mask_indices(S, i + 1, n)

\* the dictionary stored in self.optimization_results
diagnostics(sel, budget) ==
    [present |-> TRUE, success |-> TRUE,
     total_cost |-> SeqSum(sel, "cost"),
     total_score |-> SeqSum(sel, "score"),
     budget_utilization |-> Q(SeqSum(sel, "cost"), budget),
     num_projects |-> Len(sel)]

NoCall == [path |-> "none", d |-> EmptyDf, budget |-> 0, method |-> "maximize_score",
           x |-> <<>>, returned |-> <<>>, success |-> FALSE]

\* a call: its arguments, the path it took, the solution of the LP when it
\* was solved, and the selection it returned; success is result.success,
\* false when the solver gave no result
Call(path, d, budget, method, x, returned) ==
    [path |-> path, d |-> d, budget |-> budget, method |-> method,
     x |-> x, returned |-> returned, success |-> FALSE]

\* the value get_optimization_summary returned to the caller that reads the
\* diagnostics after its calls
NoSummary == [value |-> NoResults, read |-> FALSE]

OptBudgets == (0 - 1)..MaxBudget

\* df.empty: return pd.DataFrame()
OptimizeEmpty(budget, method) ==
    {Call("empty", EmptyDf, budget, method, <<>>, <<>>)}

OptimizeFallback_mut(d, budget, method) ==
    {Call("fallback", d, budget, method, <<>>, <<>>)}
\* result.success false, or an exception: return self._greedy_fallback(df, ...)
OptimizeFallback(d, budget, method) ==
    {Call("fallback", d, budget, method, <<>>,
          selected_projects(d, greedy_fallback(d, budget, order).selected,
                            [i \in Idx(d) |-> One]))
        : order \in DescendingOrders(fallback_efficiency(costs(d), scores(d)))}

OptimizeSolved_mut(d, budget, method) ==
    {Call("lp", d, budget, method, x,
          selected_projects(d, mask_indices({i \in Idx(d) : threshold(x[i])}, 1, Len(d)), x))
        : x \in lp_optimal(objective(scores(d), method), costs(d), budget)}
\* result.success: threshold the solution, or _greedy_selection when no
\* record crosses the threshold
OptimizeSolved(d, budget, method) ==
    UNION {
        LET crossed == {i \in Idx(d) : threshold(x[i])} IN
        IF crossed # {}
        THEN {Call("lp", d, budget, method, x,
                   selected_projects(d, mask_indices(crossed, 1, Len(d)), x))}
        ELSE {Call("greedy", d, budget, method, x,
                   selected_projects(d,
                       mask_indices(Range(greedy_selection(costs(d), scores(d),
                                                           budget, order).selected),
                                    1, Len(d)), x))
                : order \in DescendingOrders(selection_efficiency(costs(d), scores(d)))}
        : x \in lp_optimal(objective(scores(d), method), costs(d), budget)}

\* the calls optimize_projects(d, budget, method) can make, for each outcome
\* of the solver
optimize_projects(d, budget, method, outcome) ==
    IF d = EmptyDf THEN OptimizeEmpty(budget, method)
    ELSE IF outcome = "ok" /\ lp_feasible(costs(d), budget)
         THEN {[call EXCEPT !.success = TRUE] : call \in OptimizeSolved(d, budget, method)}
         ELSE OptimizeFallback(d, budget, method)

\* self.optimization_results after the call: assigned on the paths that go
\* through the solved branch, left as it was on the others
results_after(call, before) ==
    IF call.path \in {"lp", "greedy"}
    THEN diagnostics(call.returned, call.budget)
    ELSE before

OptimizeProjects ==
    /\ ~called
    /\ called' = TRUE
    /\ \E d \in {df, EmptyDf}, budget \in OptBudgets, method \in Methods,
          outcome \in SolverOutcomes :
            \E call \in optimize_projects(d, budget, method, outcome) :
                /\ lastCall' = call
                /\ optimization_results' = results_after(call, optimization_results)
    /\ UNCHANGED <<df, summary, greedyRun, filterVars, pipeVars, auxVars>>

\* get_optimization_summary: return self.optimization_results
GetOptimizationSummary ==
    /\ called
    /\ ~summary.read
    /\ summary' = [value |-> optimization_results, read |-> TRUE]
    /\ UNCHANGED <<df, optimization_results, lastCall, called, greedyRun, filterVars, pipeVars, auxVars>>

NoRun == [proc |-> "none", budget |-> 0, order |-> <<>>, selected |-> <<>>,
          remaining_budget |-> 0]

\* no run_pipeline invocation
NoInvocations == <<>>

\* no collection, and no call of a stage, of the scorer or of the
\* post-processor
NoHeap == <<>>
NoStageCall == [stage |-> "none", input |-> 0, output |-> 0, before |-> <<>>]
NoScoreRun == [phase |-> "none", weights |-> <<>>, composite |-> <<>>, ranked |-> <<>>,
               rows |-> <<>>, normalized |-> <<>>]
NoPostRun == [phase |-> "none", budget |-> 0, constraints |-> <<>>,
              selection |-> <<>>, steps |-> <<>>, result |-> <<>>]
InitAux ==
    /\ heap = NoHeap
    /\ stageCall = NoStageCall
    /\ scoreRun = NoScoreRun
    /\ postRun = NoPostRun

\* optimize_projects reads no field of the optimizer, so a call does not
\* depend on the calls made before it.  A behaviour is one call on a new
\* optimizer and the read of the diagnostics after it.
InitOpt ==
    /\ df \in SeqsUpTo(Rows, MaxRecords)
    /\ optimization_results = NoResults
    /\ lastCall = NoCall
    /\ summary = NoSummary
    /\ called = FALSE
    /\ greedyRun = NoRun
    /\ catalog = <<>>
    /\ filterRun = NoFilterRun
    /\ invocations = NoInvocations
    /\ InitAux

NextOpt == OptimizeProjects \/ GetOptimizationSummary

SpecOpt == InitOpt /\ [][NextOpt]_vars

(***************************************************************************)
(* The greedy procedures run on their own.                                 *)
(***************************************************************************)
RunGreedySelection ==
    /\ greedyRun.proc = "none"
    /\ \E budget \in Budgets :
       \E order \in DescendingOrders(selection_efficiency(costs(df), scores(df))) :
          LET g == greedy_selection(costs(df), scores(df), budget, order) IN
          greedyRun' = [proc |-> "greedy_selection", budget |-> budget,
                        order |-> order, selected |-> g.selected,
                        remaining_budget |-> g.remaining_budget]
    /\ UNCHANGED <<df, optimization_results, lastCall, summary, called, filterVars, pipeVars, auxVars>>

\* the budgets _greedy_fallback is called with: those of _greedy_selection,
\* and a negative one, with which the linear program is infeasible
FallbackBudgets == Budgets \cup {0 - 1}

RunGreedyFallback ==
    /\ greedyRun.proc = "none"
    /\ \E budget \in FallbackBudgets :
       \E order \in DescendingOrders(fallback_efficiency(costs(df), scores(df))) :
          LET g == greedy_fallback(df, budget, order) IN
          greedyRun' = [proc |-> "greedy_fallback", budget |-> budget,
                        order |-> order, selected |-> g.selected,
                        remaining_budget |-> g.remaining_budget]
    /\ UNCHANGED <<df, optimization_results, lastCall, summary, called, filterVars, pipeVars, auxVars>>

NextGreedy == RunGreedySelection \/ RunGreedyFallback

InitGreedy ==
    /\ df \in Dfs
    /\ optimization_results = NoResults
    /\ lastCall = NoCall
    /\ summary = NoSummary
    /\ called = FALSE
    /\ greedyRun = NoRun
    /\ catalog = <<>>
    /\ filterRun = NoFilterRun
    /\ invocations = NoInvocations
    /\ InitAux

SpecGreedy == InitGreedy /\ [][NextGreedy]_vars

(***************************************************************************)
(* Properties of the optimizer.                                            *)
(***************************************************************************)
Called == lastCall.path # "none"
ReturnedCost == SeqSum(lastCall.returned, "cost")
ReturnedScore == SeqSum(lastCall.returned, "score")
ReturnedIdx == {lastCall.returned[k].idx : k \in DOMAIN lastCall.returned}
TotalCost(d) == SumOver(costs(d), Idx(d))
TotalScore(d) == SumOver(scores(d), Idx(d))

\* C1: for costs >= 0, any budget >= 0 and either mode, the selection that
\* optimize_projects returns has total cost <= budget, whichever path
\* (LP threshold, greedy after no crossing, greedy after a solver failure)
\* produced it.
C1_ReturnedWithinBudget ==
    (Called /\ lastCall.budget >= 0) => ReturnedCost <= lastCall.budget

C3_ZeroBudgetEmpty ==
    (Called /\ lastCall.budget = 0) => lastCall.returned = <<>>

\* C3 amended: with budget = 0 every returned record has cost 0, and the
\* selection is empty exactly when the subset has no record of cost 0.
C3_ZeroBudgetOnlyFree ==
    (Called /\ lastCall.budget = 0) =>
        /\ \A k \in DOMAIN lastCall.returned : lastCall.returned[k].cost = 0
        /\ lastCall.returned = <<>>
              <=> ~(\E i \in Idx(lastCall.d) : lastCall.d[i].cost = 0)

C3_Witness ==
    /\ lastCall.path = "lp"
    /\ lastCall.budget = 0
    /\ lastCall.returned # <<>>
    /\ \E i \in Idx(lastCall.d) : lastCall.d[i].cost > 0

\* C4: when budget >= total cost of the subset, the selection returned in
\* mode maximize_score has aggregate score equal to the sum of the scores
\* of all records of the subset.
C4_AmpleBudgetMaxScore ==
    (/\ Called
     /\ lastCall.d # EmptyDf
     /\ lastCall.method = "maximize_score"
     /\ lastCall.budget >= TotalCost(lastCall.d))
        => ReturnedScore = TotalScore(lastCall.d)

C4_Witness ==
    /\ lastCall.path = "lp"
    /\ lastCall.method = "maximize_score"
    /\ Len(lastCall.d) = 2
    /\ lastCall.budget = TotalCost(lastCall.d)
    /\ lastCall.budget > 0
    /\ Len(lastCall.returned) = 2
    /\ ReturnedScore > 0

\* C5: on A(100, 90), B(50, 40), C(60, 70) with budget 110 the greedy
\* procedures consider the records in the order C, A, B and select exactly
\* {C, B}: total cost 110, total score 110.
C5_ScenarioGreedy ==
    (/\ greedyRun.proc # "none"
     /\ df = ScenarioDf
     /\ greedyRun.budget = ScenarioBudget)
        => /\ greedyRun.order = <<3, 1, 2>>
           /\ Range(greedyRun.selected) = {3, 2}
           /\ SumOver(costs(df), Range(greedyRun.selected)) = 110
           /\ SumOver(scores(df), Range(greedyRun.selected)) = 110
           /\ greedyRun.remaining_budget = 0

C5_Witness ==
    /\ greedyRun.proc = "greedy_selection"
    /\ df = ScenarioDf
    /\ greedyRun.budget = ScenarioBudget
    /\ greedyRun.selected = <<3, 2>>

\* the records a greedy run has left out
LeftOut == Idx(df) \ Range(greedyRun.selected)

\* C29 as stated: when a greedy procedure finishes, no record it left out
\* costs <= the remaining budget, the remaining budget is the budget minus
\* the total cost of the selected records, and it is not negative.
C29_GreedyMaximal ==
    greedyRun.proc # "none" =>
        /\ \A i \in LeftOut : df[i].cost > greedyRun.remaining_budget
        /\ greedyRun.remaining_budget
              = greedyRun.budget - SumOver(costs(df), Range(greedyRun.selected))
        /\ greedyRun.remaining_budget >= 0

\* C29 amended: the first two parts hold for every budget, and the remaining
\* budget is not negative when the budget is not negative.
C29_GreedyMaximalFromBudget ==
    greedyRun.proc # "none" =>
        /\ \A i \in LeftOut : df[i].cost > greedyRun.remaining_budget
        /\ greedyRun.remaining_budget
              = greedyRun.budget - SumOver(costs(df), Range(greedyRun.selected))
        /\ greedyRun.budget >= 0 => greedyRun.remaining_budget >= 0
        /\ greedyRun.budget < 0 => greedyRun.selected = <<>>

\* a record affordable at the start is left out because the record admitted
\* before it has used part of the budget
C29_Witness ==
    /\ greedyRun.proc = "greedy_selection"
    /\ Len(df) = 2
    /\ Len(greedyRun.selected) = 1
    /\ greedyRun.remaining_budget > 0
    /\ \E i \in LeftOut :
          /\ df[i].cost <= greedyRun.budget
          /\ df[i].cost > greedyRun.remaining_budget

\* the efficiency ratios of the greedy procedure that was not run
OtherEfficiency ==
    IF greedyRun.proc = "greedy_selection"
    THEN fallback_efficiency(costs(df), scores(df))
    ELSE selection_efficiency(costs(df), scores(df))

\* C30: for the same costs (records of cost 0 and records of equal
\* efficiency included), scores and budget >= 0, _greedy_selection and
\* _greedy_fallback select the same set of records: the set one of them has
\* selected is the set the other selects.
C30_GreedyProceduresAgree ==
    (greedyRun.proc # "none" /\ greedyRun.budget >= 0) =>
        \A order \in DescendingOrders(OtherEfficiency) :
            Range(greedy_loop(order, 1, costs(df), greedyRun.budget, <<>>).selected)
                = Range(greedyRun.selected)

\* C6: get_optimization_summary returns the diagnostics of the most recent
\* optimize_projects call: total cost, total score and count of the
\* selection that call returned and budget utilization = that total cost /
\* that call's budget, whichever path the call took.
C6_SummaryOfLatestCall ==
    (summary.read /\ Called) =>
        summary.value = diagnostics(lastCall.returned, lastCall.budget)

\* C8: in mode minimize_risk the score used is the sign-flipped composite
\* score everywhere: a selection taken from a greedy procedure is one that
\* the procedure gives on the efficiency ratios (-score_i) / cost_i.
flipped(ss) == [i \in DOMAIN ss |-> 0 - ss[i]]

C8_GreedyUsesFlippedScore ==
    (lastCall.method = "minimize_risk" /\ lastCall.path \in {"greedy", "fallback"}) =>
        LET cs == costs(lastCall.d)
            fs == flipped(scores(lastCall.d))
            eff == IF lastCall.path = "greedy" THEN selection_efficiency(cs, fs)
                   ELSE fallback_efficiency(cs, fs)
        IN \E order \in DescendingOrders(eff) :
              ReturnedIdx = Range(greedy_loop(order, 1, cs, lastCall.budget, <<>>).selected)

\* C21: when every record of the subset costs more than the budget
\* (budget > 0), optimize_projects returns an empty selection.
C21_BudgetInfeasibleEmpty ==
    (/\ Called
     /\ lastCall.d # EmptyDf
     /\ lastCall.budget > 0
     /\ \A i \in Idx(lastCall.d) : lastCall.d[i].cost > lastCall.budget)
        => lastCall.returned = <<>>

\* the records whose LP value crosses the threshold in the latest call
Crossed ==
    IF lastCall.success
    THEN {i \in Idx(lastCall.d) : threshold(lastCall.x[i])}
    ELSE {}

\* the latest call returned a selection a greedy procedure gives on eff
GreedyGives(eff) ==
    \E order \in DescendingOrders(eff) :
        ReturnedIdx = Range(greedy_loop(order, 1, costs(lastCall.d),
                                        lastCall.budget, <<>>).selected)

\* C24: on a non-empty subset optimize_projects takes its selection from a
\* greedy procedure exactly when the LP solve failed or no LP value crosses
\* 0.5 (_greedy_fallback in the first case, _greedy_selection in the second);
\* otherwise the selection is the set of records with x_i > 0.5.
C24_GreedyOnlyOnFailureOrNoCrossing ==
    (Called /\ lastCall.d # EmptyDf) =>
        /\ lastCall.path \in {"lp", "greedy", "fallback"}
        /\ lastCall.path = "fallback" <=> ~lastCall.success
        /\ lastCall.path = "greedy" <=> (lastCall.success /\ Crossed = {})
        /\ lastCall.path = "lp" => ReturnedIdx = Crossed
        /\ lastCall.path = "greedy" =>
              GreedyGives(selection_efficiency(costs(lastCall.d), scores(lastCall.d)))
        /\ lastCall.path = "fallback" =>
              GreedyGives(fallback_efficiency(costs(lastCall.d), scores(lastCall.d)))

\* the LP is solved, its one positive value is 1/3, and the greedy procedure
\* selects the other record
C24_Witness ==
    /\ lastCall.path = "greedy"
    /\ lastCall.success
    /\ Len(lastCall.d) = 2
    /\ lastCall.x[1] = Q(1, 3)
    /\ ReturnedIdx = {2}

\* C25 as stated: on the LP path a record is returned if and only if its LP
\* value is > 0.5, and on every path each returned record carries as
\* Selection_Weight a value in [0, 1] that is its own LP value: the value the
\* solver returned for it or, when the solver returned none, its value in an
\* optimal solution of the program the call poses.
C25_WeightIsOwnLpValue ==
    Called =>
        /\ lastCall.path = "lp" =>
              \A i \in Idx(lastCall.d) :
                  i \in ReturnedIdx <=> threshold(lastCall.x[i])
        /\ \A k \in DOMAIN lastCall.returned :
              LET weight == lastCall.returned[k].Selection_Weight
                  idx == lastCall.returned[k].idx
              IN /\ QGe(weight, Zero)
                 /\ QLe(weight, One)
                 /\ IF lastCall.success
                    THEN weight = lastCall.x[idx]
                    ELSE \E x \in lp_optimal(objective(scores(lastCall.d), lastCall.method),
                                              costs(lastCall.d), lastCall.budget) :
                            weight = x[idx]

\* C25 amended: on the LP path a record is returned if and only if its LP
\* value is > 0.5; every returned record carries a Selection_Weight in
\* [0, 1], which is its own LP value when the LP was solved and 1 when the
\* selection comes from the greedy fallback.
C25_WeightIsOwnLpValueWhenSolved ==
    Called =>
        /\ lastCall.path = "lp" =>
              \A i \in Idx(lastCall.d) :
                  i \in ReturnedIdx <=> threshold(lastCall.x[i])
        /\ \A k \in DOMAIN lastCall.returned :
              LET weight == lastCall.returned[k].Selection_Weight
                  idx == lastCall.returned[k].idx
              IN /\ QGe(weight, Zero)
                 /\ QLe(weight, One)
                 /\ weight = (IF lastCall.success THEN lastCall.x[idx] ELSE One)

\* the second of two records is returned alone, with its value 2/3 and not
\* the value 0 of the first
C25_Witness ==
    /\ lastCall.path = "lp"
    /\ Len(lastCall.d) = 2
    /\ ReturnedIdx = {2}
    /\ lastCall.x[1] = Zero
    /\ lastCall.returned[1].Selection_Weight = Q(2, 3)

(***************************************************************************)
(* Filter specs.  A predicate is Threshold(operator, number), Equals(value) *)
(* or OneOf(values); the dictionary handed to apply_filters holds, as the  *)
(* query parser writes them, a string operator + number for a threshold,   *)
(* the value itself (or "==" + text) for an equality and a list for a set  *)
(* of accepted values.                                                     *)
(***************************************************************************)
OrderOps == {<<">", "=">>, <<"<", "=">>, <<">">>, <<"<">>}
EqOp == <<"=", "=">>

Threshold(op, n) ==
    [kind |-> "threshold", op |-> op, number |-> n, value |-> PyNum(n), values |-> <<>>]
Equals(op, v) ==
    [kind |-> "equals", op |-> op, number |-> 0, value |-> v, values |-> <<>>]
OneOf(vs) ==
    [kind |-> "oneof", op |-> <<>>, number |-> 0, value |-> PyNum(0), values |-> vs]

\* predicates on the cost: every threshold operator, an equality, a list
CostPredicates ==
    {Threshold(op, 2) : op \in OrderOps \cup {EqOp}}
    \cup {Equals(<<>>, PyNum(1)), OneOf(<<PyNum(1), PyNum(2)>>)}

\* predicates on the risk level: equality in both spellings and a list, and
\* the predicates with a number, which do not suit a column of strings
RiskPredicates ==
    {Equals(<<>>, PyStr(Low)), Equals(EqOp, PyStr(Low)),
     OneOf(<<PyStr(Low), PyStr(Medium)>>),
     Threshold(<<">", "=">>, 2), Equals(<<>>, PyNum(1))}

\* str(n) for a number below 10
str(n) == <<Digits[n + 1]>>

\* the dictionary value that states the predicate
filter_value_of(p) ==
    CASE p.kind = "threshold" -> PyStr(p.op \o str(p.number))
      [] p.kind = "equals" -> IF p.op = <<>> THEN p.value ELSE PyStr(p.op \o p.value.s)
      [] p.kind = "oneof" -> PyList(p.values)

UnknownColumn == "Unknown_Column"
FilterColumns == Columns \cup {UnknownColumn}
Item(c, p) == [column |-> c, pred |-> p]
Items ==
    {Item("Total_Investment_USD", p) : p \in CostPredicates}
    \cup {Item("Financial_Risk_Level", p) : p \in RiskPredicates}
    \cup {Item(UnknownColumn, Threshold(<<">", "=">>, 2))}

\* filters.items() of a filter spec
filters_of(spec) ==
    [k \in DOMAIN spec |-> [column |-> spec[k].column, value |-> filter_value_of(spec[k].pred)]]

\* spec with item inserted so that it becomes the item at position pos
InsertAt(spec, pos, item) ==
    SubSeq(spec, 1, pos - 1) \o <<item>> \o SubSeq(spec, pos, Len(spec))

\* apply_filters(catalog, F)
ApplyFilters ==
    /\ filterRun.phase = "none"
    /\ \E spec \in {<<>>} \cup {<<it>> : it \in Items} :
          LET result == apply_filters(catalog, filters_of(spec)) IN
          filterRun' = [phase |-> "applied", spec |-> spec, result |-> result,
                        base_result |-> result]
    /\ UNCHANGED <<catalog, optVars, pipeVars, auxVars>>

\* apply_filters(catalog, F plus p), p on an attribute F does not name
ApplyExtended ==
    /\ filterRun.phase # "none"
    /\ Len(filterRun.spec) < MaxPredicates
    /\ \E it \in Items, pos \in 1..(Len(filterRun.spec) + 1) :
          /\ \A k \in DOMAIN filterRun.spec : filterRun.spec[k].column # it.column
          /\ LET spec == InsertAt(filterRun.spec, pos, it) IN
             filterRun' = [phase |-> "extended", spec |-> spec,
                           result |-> apply_filters(catalog, filters_of(spec)),
                           base_result |-> filterRun.result]
    /\ UNCHANGED <<catalog, optVars, pipeVars, auxVars>>

InitFilter ==
    /\ catalog \in Catalogs
    /\ filterRun = NoFilterRun
    /\ df = <<>>
    /\ optimization_results = NoResults
    /\ lastCall = NoCall
    /\ summary = NoSummary
    /\ called = FALSE
    /\ greedyRun = NoRun
    /\ invocations = NoInvocations
    /\ InitAux

NextFilter == ApplyFilters \/ ApplyExtended

SpecFilter == InitFilter /\ [][NextFilter]_vars

\* the stored type of a column
ColumnType(column) ==
    IF column = "Total_Investment_USD" THEN "num" ELSE "str"

\* a predicate is active when its attribute is in the schema and its value is
\* comparable with the attribute's stored type
Active(it) ==
    /\ it.column \in Columns
    /\ ~(it.pred.kind = "threshold" /\ it.pred.op \in OrderOps
            /\ ColumnType(it.column) = "str")

\* the comparison a threshold operator stands for
Compares(op, a, b) ==
    \/ op = <<">", "=">> /\ a >= b
    \/ op = <<"<", "=">> /\ a <= b
    \/ op = <<">">> /\ a > b
    \/ op = <<"<">> /\ a < b
    \/ op = EqOp /\ a = b

\* the record's cell passes the predicate
Passes(cell, p) ==
    CASE p.kind = "threshold" -> cell.t = "num" /\ Compares(p.op, cell.n, p.number)
      [] p.kind = "equals" -> cell = p.value
      [] p.kind = "oneof" -> \E k \in DOMAIN p.values : cell = p.values[k]

PassingRows(spec) ==
    {i \in DOMAIN catalog :
        \A k \in DOMAIN spec :
            Active(spec[k]) => Passes(catalog[i][spec[k].column], spec[k].pred)}

\* C9: apply_filters returns exactly the catalog records that pass every
\* active predicate of the spec, in catalog order, so the result is a subset
\* of the catalog.
C9_FilterIsConjunction ==
    filterRun.phase # "none" =>
        /\ \A k \in DOMAIN filterRun.result : filterRun.result[k] \in DOMAIN catalog
        /\ \A j, k \in DOMAIN filterRun.result :
              j < k => filterRun.result[j] < filterRun.result[k]
        /\ Range(filterRun.result) = PassingRows(filterRun.spec)

C9_Witness ==
    /\ filterRun.phase = "extended"
    /\ Len(filterRun.spec) = 2
    /\ \A k \in DOMAIN filterRun.spec : Active(filterRun.spec[k])
    /\ \E k \in DOMAIN filterRun.spec :
          filterRun.spec[k].pred = Threshold(<<">", "=">>, 2)
    /\ \E k \in DOMAIN filterRun.spec : filterRun.spec[k].pred.kind = "oneof"
    /\ Len(filterRun.result) = 1
    /\ Len(filterRun.base_result) = 2

\* C10: adding a predicate on an attribute not already in the spec never
\* makes apply_filters return more records.
C10_MorePredicatesFewerRows ==
    filterRun.phase = "extended" =>
        Len(filterRun.result) <= Len(filterRun.base_result)

C10_Witness ==
    /\ filterRun.phase = "extended"
    /\ Len(filterRun.spec) = 2
    /\ filterRun.spec[1].column = "Total_Investment_USD"
    /\ Active(filterRun.spec[1])
    /\ Len(filterRun.base_result) = 2
    /\ Len(filterRun.result) = 1
    /\ Len(apply_filters(catalog, filters_of(<<filterRun.spec[1]>>))) = 1

\* the types of the values a predicate compares the attribute with
ValueTypes(p) ==
    CASE p.kind = "threshold" -> {"num"}
      [] p.kind = "equals" -> {p.value.t}
      [] p.kind = "oneof" -> {p.values[k].t : k \in DOMAIN p.values}

\* the predicate's value is incomparable with the stored type of its attribute
Mismatched(it) ==
    /\ it.column \in Columns
    /\ ColumnType(it.column) \notin ValueTypes(it.pred)

RowsPassing(spec, counted(_)) ==
    {i \in DOMAIN catalog :
        \A k \in DOMAIN spec :
            counted(spec[k]) => Passes(catalog[i][spec[k].column], spec[k].pred)}

\* C11: a predicate whose value is incomparable with the stored type of its
\* attribute (threshold, equality or list) is skipped and only that one:
\* apply_filters returns exactly the records that pass the remaining
\* predicates on schema attributes.
C11_MismatchSkipped ==
    filterRun.phase # "none" =>
        Range(filterRun.result)
            = RowsPassing(filterRun.spec,
                          LAMBDA it : it.column \in Columns /\ ~Mismatched(it))

\* C12: a predicate on an attribute that is not in the schema is skipped and
\* the others are evaluated: apply_filters(catalog, F) returns what it returns
\* for F without its unknown-attribute entries.
C12_UnknownAttributeSkipped ==
    filterRun.phase # "none" =>
        filterRun.result
            = apply_filters(catalog,
                  validate_filters(filters_of(filterRun.spec), columns_of(catalog)))

C12_Witness ==
    /\ filterRun.phase = "extended"
    /\ Len(filterRun.spec) = 2
    /\ filterRun.spec[1].column = UnknownColumn
    /\ filterRun.spec[2].column = "Total_Investment_USD"
    /\ Len(catalog) = 2
    /\ Len(filterRun.result) = 1
    /\ filterRun.result = apply_filters(catalog, filters_of(<<filterRun.spec[2]>>))

(***************************************************************************)
(* ProjectScorer.score_projects.                                           *)
(*                                                                         *)
(* weights is the dictionary as the sequence of its items, the weights in  *)
(* hundredths.  In every frame of the model Composite_Score is a multiple  *)
(* of 1/ScoreUnit; it is kept as that multiple, an integer, so that the    *)
(* score column holds the exact value.                                     *)
(***************************************************************************)
Weight(column, weight) == [column |-> column, weight |-> weight]

\* ESGOptimizationPipeline.default_weights
default_weights ==
    <<Weight("Overall_ESG_Score", 20), Weight("Impact_Potential_Score", 15),
      Weight("CO2_Reduction_Tonnes_Annual", 12), Weight("Jobs_Created_Total", 10),
      Weight("Expected_ROI_Percent", 8), Weight("Beneficiaries_Direct", 8),
      Weight("Innovation_Score", 6), Weight("Scalability_Score", 6),
      Weight("Long_Term_Viability_Score", 5), Weight("Social_Score", 5),
      Weight("Governance_Score", 5)>>

\* the weights_dict of a request: None, a dictionary on two columns of the
\* catalog, and a dictionary that names no column of the catalog
NoWeights == <<>>
WeightDicts ==
    {NoWeights,
     <<Weight("Financial_Risk_Level", 100), Weight("Overall_ESG_Score", 100)>>,
     <<Weight("Impact_Potential_Score", 100)>>}

RiskColumns == {"Financial_Risk_Level", "Environmental_Risk_Level",
                "Social_Risk_Level", "Governance_Risk_Level"}

risk_mapping_mut(level) ==
    CASE level = Low -> 1
      [] level = Medium -> 2
      [] level = High -> 3
      [] OTHER -> 1
\* col_data.map(risk_mapping).fillna(1)
risk_mapping(level) ==
    CASE level = Low -> 3
      [] level = Medium -> 2
      [] level = High -> 1
      [] OTHER -> 1

\* the column of the rows, risk levels converted to numbers
col_data(frame, rows, column) ==
    [k \in DOMAIN rows |->
        IF column \in RiskColumns
        THEN risk_mapping(frame[rows[k]][column].s)
        ELSE frame[rows[k]][column].n]

SeqMax(col) == CHOOSE v \in Range(col) : \A w \in Range(col) : v >= w
SeqMin_mut(col) == 0
SeqMin(col) == CHOOSE v \in Range(col) : \A w \in Range(col) : v <= w

normalized_col_mut(col) == [k \in DOMAIN col |-> Q(col[k], 1)]
\* min-max normalization; a constant column becomes a column of ones
normalized_col(col) ==
    IF SeqMax(col) > SeqMin(col)
    THEN [k \in DOMAIN col |-> Q(col[k] - SeqMin(col), SeqMax(col) - SeqMin(col))]
    ELSE [k \in DOMAIN col |-> One]

\* the items of weights whose column is in the frame
RECURSIVE scoring_items(_, _)
scoring_items(frame, weights) ==
    IF weights = <<>> THEN <<>>
    ELSE (IF Head(weights).column \in columns_of(frame)
          THEN <<Head(weights)>> ELSE <<>>)
         \o scoring_items(frame, Tail(weights))

RECURSIVE total_weight(_)
total_weight(items) ==
    IF items = <<>> THEN 0 ELSE Head(items).weight + total_weight(Tail(items))

RECURSIVE GCD(_, _)
GCD(a, b) == IF b = 0 THEN a ELSE GCD(b, a % b)

\* the least common multiple of a set of positive numbers
RECURSIVE LCM(_)
LCM(S) ==
    IF S = {} THEN 1
    ELSE LET n == CHOOSE m \in S : TRUE
             rest == LCM(S \ {n})
         IN (n * rest) \div GCD(n, rest)

\* the weight maps of the model: those of the requests, and maps with zero
\* weights
ZeroWeightDicts ==
    {<<Weight("Overall_ESG_Score", 0), Weight("Financial_Risk_Level", 0)>>,
     <<Weight("Overall_ESG_Score", 0), Weight("Financial_Risk_Level", 100)>>}
\* a weight map and the same map with every weight doubled
ScaledWeightDicts ==
    {<<Weight("Overall_ESG_Score", 75), Weight("Financial_Risk_Level", 25)>>,
     <<Weight("Overall_ESG_Score", 150), Weight("Financial_Risk_Level", 50)>>}
AllWeightDicts ==
    WeightDicts \cup ZeroWeightDicts \cup ScaledWeightDicts \cup {default_weights}

\* the columns the weight maps name
WeightColumns ==
    UNION {{w[k].column : k \in DOMAIN w} : w \in AllWeightDicts}

normalized_weight_mut(items, weight) == Q(weight, 100)
\* weight / total_weight if total_weight > 0 else 1 / len(scoring_columns)
normalized_weight(items, weight) ==
    IF total_weight(items) > 0 THEN Q(weight, total_weight(items))
    ELSE Q(1, Len(items))

\* the differences between two values of a scoring column of the frame
Spreads(frame) ==
    LET all == [i \in DOMAIN frame |-> i]
        values(column) == Range(col_data(frame, all, column))
    IN UNION {{v - w : v, w \in values(column)}
                : column \in columns_of(frame) \cap WeightColumns}

\* a multiple of the denominator of every normalized weight times every
\* spread of the frame
ScoreUnit(frame) ==
    LCM({normalized_weight(scoring_items(frame, w), 1).den : w \in AllWeightDicts}
        \ {0})
    * LCM({v \in Spreads(frame) : v > 0})

\* normalized_data: for each scoring column, its normalized values on the rows
normalized_data(frame, rows, items) ==
    [column \in {items[i].column : i \in DOMAIN items} |->
        normalized_col(col_data(frame, rows, column))]

\* composite_scores * 100, in multiples of 1/ScoreUnit
RECURSIVE composite_scores(_, _, _, _, _)
composite_scores(frame, rows, items, all_items, k) ==
    IF items = <<>> THEN 0
    ELSE LET n == normalized_col(col_data(frame, rows, Head(items).column))[k]
             w == normalized_weight(all_items, Head(items).weight)
         IN 100 * w.num * n.num * (ScoreUnit(frame) \div (w.den * n.den))
            + composite_scores(frame, rows, Tail(items), all_items, k)

default_score_mut(frame, i) == 0
\* scored_df.get('Overall_ESG_Score', 0) at row i
default_score(frame, i) ==
    IF "Overall_ESG_Score" \in columns_of(frame)
    THEN frame[i]["Overall_ESG_Score"].n
    ELSE 0

\* scored_df['Composite_Score'] for the rows of the frame, in multiples of
\* 1/ScoreUnit
Composite_Score(frame, rows, weights) ==
    LET items == scoring_items(frame, weights)
    IN [k \in DOMAIN rows |->
            IF items = <<>>
            THEN default_score(frame, rows[k]) * ScoreUnit(frame)
            ELSE composite_scores(frame, rows, items, items, k)]

\* score_projects(df, weights) on the rows of the frame: the scored subset,
\* with its cost column and its Composite_Score column
score_projects(frame, rows, weights) ==
    [k \in DOMAIN rows |->
        Row(frame[rows[k]]["Total_Investment_USD"].n,
            Composite_Score(frame, rows, weights)[k])]

(***************************************************************************)
(* ESGOptimizationPipeline.run_pipeline.  The server holds one pipeline,   *)
(* so the invocations share its catalog, its filter, its scorer and its    *)
(* optimizer.  An invocation takes two steps: it filters, scores and       *)
(* optimizes, and later it compiles its results, which reads the           *)
(* diagnostics of the optimizer.  Other invocations may run between the    *)
(* two.                                                                    *)
(***************************************************************************)
Invocations == {"a", "b"}

PipelineRow(c, r, e) ==
    [Total_Investment_USD |-> PyNum(c), Financial_Risk_Level |-> PyStr(r),
     Overall_ESG_Score |-> PyNum(e)]

\* self.df_esg
df_esg == <<PipelineRow(1, Low, 2), PipelineRow(2, High, 1), PipelineRow(2, Low, 0)>>

Filter(column, value) == [column |-> column, value |-> value]

\* the text of a float with an integer value below 10, as an f-string writes it
format_float(n) == str(n) \o <<".", "0">>

\* the dictionaries parse_user_input produces for the queries of the model
ParsedFilters ==
    {<<>>,
     <<Filter("Financial_Risk_Level", PyStr(Low))>>,
     <<Filter("Financial_Risk_Level", PyStr(Medium))>>,
     <<Filter("Total_Investment_USD", PyStr(<<"<", "=">> \o format_float(1)))>>}

PipelineBudgets == 1..MaxBudget

NoResultsYet == [success |-> FALSE, error |-> "none", filtered_count |-> 0,
                 selected_count |-> 0, optimization_summary |-> NoResults]

NotStarted == [pc |-> "start", filters |-> <<>>, budget |-> 0,
               method |-> "maximize_score", path |-> "none",
               df_selected |-> <<>>, results |-> NoResultsYet, fault |-> "none"]

empty_mut(frame) == FALSE
\* df_filtered.empty
empty(frame) == frame = <<>>

\* lines 92-117 of run_pipeline, and the two early returns
RunPipelineSelect(t) ==
    /\ invocations[t].pc = "start"
    /\ \E filters \in ParsedFilters, weights_dict \in WeightDicts,
          budget \in PipelineBudgets, method \in Methods,
          outcome \in SolverOutcomes :
        LET df_filtered == apply_filters(catalog, filters)
            weights == IF weights_dict = NoWeights THEN default_weights
                       ELSE weights_dict
            started == [NotStarted EXCEPT !.filters = filters, !.budget = budget,
                                          !.method = method]
        IN IF empty(df_filtered)
           THEN /\ invocations' = [invocations EXCEPT ![t] =
                        [started EXCEPT !.pc = "done",
                            !.results = [NoResultsYet EXCEPT
                                !.filtered_count = Len(df_filtered),
                                !.error = "No projects match the specified criteria"]]]
                /\ UNCHANGED optimization_results
           ELSE \E call \in optimize_projects(
                                score_projects(catalog, df_filtered, weights),
                                budget, method, outcome) :
                /\ optimization_results' = results_after(call, optimization_results)
                /\ invocations' = [invocations EXCEPT ![t] =
                        [started EXCEPT
                            !.pc = IF call.returned = <<>> THEN "done" ELSE "compile",
                            !.path = call.path,
                            !.df_selected = call.returned,
                            !.results = [NoResultsYet EXCEPT
                                !.filtered_count = Len(df_filtered),
                                !.selected_count = Len(call.returned),
                                !.error = IF call.returned = <<>>
                                          THEN "No projects could be selected within budget constraints"
                                          ELSE "none"]]]
    /\ UNCHANGED <<df, lastCall, summary, called, greedyRun, filterVars, auxVars>>

\* lines 127-136 of run_pipeline
RunPipelineCompile(t) ==
    /\ invocations[t].pc = "compile"
    /\ invocations' = [invocations EXCEPT ![t] =
            [@ EXCEPT !.pc = "done",
                      !.results = [@ EXCEPT !.success = TRUE,
                                            !.optimization_summary = optimization_results]]]
    /\ UNCHANGED <<optVars, filterVars, auxVars>>

InitPipe ==
    /\ invocations = [t \in Invocations |-> NotStarted]
    /\ InitAux
    /\ catalog = df_esg
    /\ filterRun = NoFilterRun
    /\ df = <<>>
    /\ optimization_results = NoResults
    /\ lastCall = NoCall
    /\ summary = NoSummary
    /\ called = FALSE
    /\ greedyRun = NoRun

NextPipe ==
    \E t \in Invocations : RunPipelineSelect(t) \/ RunPipelineCompile(t)

SpecPipe == InitPipe /\ [][NextPipe]_vars

\* C7: under every interleaving of the invocations that share one pipeline, a
\* successful invocation whose optimizer call recorded diagnostics returns, as
\* optimization_summary, the diagnostics of its own selection and its own
\* budget.
C7_SummaryIsOwn ==
    \A t \in DOMAIN invocations :
        (/\ invocations[t].pc = "done"
         /\ invocations[t].results.success
         /\ invocations[t].path \in {"lp", "greedy"})
        => invocations[t].results.optimization_summary
               = diagnostics(invocations[t].df_selected, invocations[t].budget)

\* C20: when filtering yields zero records, run_pipeline returns at once: the
\* optimizer is not called and its diagnostics are left as they were, and the
\* result has success = False, filtered_count = 0 and the no-matches message.
C20_EmptyFilterHalts ==
    [][\A t \in DOMAIN invocations :
          (/\ invocations[t].pc = "start"
           /\ invocations'[t].pc # "start"
           /\ apply_filters(catalog, invocations'[t].filters) = <<>>)
          => /\ invocations'[t].pc = "done"
             /\ invocations'[t].path = "none"
             /\ invocations'[t].df_selected = <<>>
             /\ ~invocations'[t].results.success
             /\ invocations'[t].results.filtered_count = 0
             /\ invocations'[t].results.error
                    = "No projects match the specified criteria"
             /\ optimization_results' = optimization_results]_vars

C20_Witness ==
    /\ optimization_results.present
    /\ \E t \in DOMAIN invocations :
          /\ invocations[t].pc = "done"
          /\ invocations[t].filters = <<Filter("Financial_Risk_Level", PyStr(Medium))>>
          /\ invocations[t].results.error = "No projects match the specified criteria"
          /\ invocations[t].results.filtered_count = 0
          /\ ~invocations[t].results.success

(***************************************************************************)
(* run_pipeline when a stage raises.  An exception is its class and its    *)
(* args; the except clause of run_pipeline catches the subclasses of       *)
(* Exception and stores str(e).                                            *)
(***************************************************************************)
\* exceptions a stage can raise: one raised with no argument (a failed
\* assert), one raised with a message, and one that is not a subclass of
\* Exception
Exceptions ==
    {[class |-> "AssertionError", args |-> <<>>],
     [class |-> "ValueError", args |-> <<"could not convert string to float">>],
     [class |-> "KeyboardInterrupt", args |-> <<>>]}

\* except Exception
caught(e) == e.class # "KeyboardInterrupt"

\* str(e): the argument of the exception, the empty string when it has none
exception_str(e) == IF e.args = <<>> THEN "" ELSE e.args[1]

\* the invocation after the stage has raised e: run_pipeline returns results
\* with the error, or the exception leaves run_pipeline
raised_in(invocation, stage, e) ==
    IF caught(e)
    THEN [invocation EXCEPT !.pc = "done", !.fault = stage,
                            !.results.error = exception_str(e)]
    ELSE [invocation EXCEPT !.pc = "escaped", !.fault = stage]

\* a stage raises: parse or filter before filtered_count is set, score or
\* optimize after it, explain or summarize after selected_count is set
RunPipelineRaise(t) ==
    /\ \E e \in Exceptions :
        \/ /\ invocations[t].pc = "start"
           /\ \E stage \in {"parse", "filter"}, budget \in PipelineBudgets,
                 method \in Methods :
                 invocations' = [invocations EXCEPT ![t] =
                     raised_in([NotStarted EXCEPT !.budget = budget, !.method = method],
                               stage, e)]
        \/ /\ invocations[t].pc = "start"
           /\ \E stage \in {"score", "optimize"}, filters \in ParsedFilters,
                 budget \in PipelineBudgets, method \in Methods :
                 /\ ~empty(apply_filters(catalog, filters))
                 /\ invocations' = [invocations EXCEPT ![t] =
                        raised_in([NotStarted EXCEPT !.filters = filters,
                                      !.budget = budget, !.method = method,
                                      !.results.filtered_count =
                                          Len(apply_filters(catalog, filters))],
                                  stage, e)]
        \/ /\ invocations[t].pc = "compile"
           /\ \E stage \in {"explain", "summarize"} :
                 invocations' = [invocations EXCEPT ![t] =
                     raised_in(invocations[t], stage, e)]
    /\ UNCHANGED <<optVars, filterVars, auxVars>>

\* one request on a new pipeline
InitFault ==
    /\ invocations = [t \in {"a"} |-> NotStarted]
    /\ InitAux
    /\ catalog = df_esg
    /\ filterRun = NoFilterRun
    /\ df = <<>>
    /\ optimization_results = NoResults
    /\ lastCall = NoCall
    /\ summary = NoSummary
    /\ called = FALSE
    /\ greedyRun = NoRun

NextFault ==
    \E t \in DOMAIN invocations :
        RunPipelineSelect(t) \/ RunPipelineCompile(t) \/ RunPipelineRaise(t)

SpecFault == InitFault /\ [][NextFault]_vars

\* C23: whatever a stage raises, run_pipeline returns a result with
\* success = False and a non-empty error message, and no exception leaves it;
\* in every returned result success = True implies error is None,
\* filtered_count > 0 and selected_count > 0.
C23_NoRawFaultEscapes ==
    \A t \in DOMAIN invocations :
        /\ invocations[t].pc # "escaped"
        /\ (invocations[t].pc = "done" /\ invocations[t].fault # "none") =>
              /\ ~invocations[t].results.success
              /\ invocations[t].results.error \notin {"none", ""}
        /\ (invocations[t].pc = "done" /\ invocations[t].results.success) =>
              /\ invocations[t].results.error = "none"
              /\ invocations[t].results.filtered_count > 0
              /\ invocations[t].results.selected_count > 0

\* the scored subsets an invocation can have handed to the optimizer
ScoredSubsets(t) ==
    {score_projects(catalog, apply_filters(catalog, invocations[t].filters),
                    IF weights_dict = NoWeights THEN default_weights ELSE weights_dict)
        : weights_dict \in WeightDicts}

\* the selection of the invocation is one _greedy_fallback gives on d
FallbackGives(t, d) ==
    \E order \in DescendingOrders(fallback_efficiency(costs(d), scores(d))) :
        LET picked == greedy_loop(order, 1, costs(d), invocations[t].budget, <<>>).selected
        IN /\ Len(invocations[t].df_selected) = Len(picked)
           /\ \A k \in DOMAIN picked :
                 /\ invocations[t].df_selected[k].idx = picked[k]
                 /\ invocations[t].df_selected[k].Selection_Weight = One

\* C22: when the LP solve fails, the invocation goes on with the selection
\* of the greedy fallback: it reports the no-selection error if that
\* selection is empty and no error otherwise, and then, unless a later stage
\* raises, it succeeds.
C22_SolverFailureNotSurfaced ==
    \A t \in DOMAIN invocations :
        (invocations[t].path = "fallback" /\ invocations[t].fault = "none") =>
            /\ \E d \in ScoredSubsets(t) : FallbackGives(t, d)
            /\ invocations[t].results.selected_count = Len(invocations[t].df_selected)
            /\ invocations[t].results.error
                  = (IF invocations[t].df_selected = <<>>
                     THEN "No projects could be selected within budget constraints"
                     ELSE "none")
            /\ invocations[t].pc = (IF invocations[t].df_selected = <<>>
                                    \/ invocations[t].results.success
                                   THEN "done" ELSE "compile")
            /\ invocations[t].results.success => invocations[t].df_selected # <<>>

\* a run whose LP solve failed has succeeded with two records
C22_Witness ==
    \E t \in DOMAIN invocations :
        /\ invocations[t].pc = "done"
        /\ invocations[t].path = "fallback"
        /\ invocations[t].results.success
        /\ invocations[t].results.error = "none"
        /\ invocations[t].results.selected_count = 2

(***************************************************************************)
(* The stages as operations on collections with an identity.  A collection *)
(* is an object of the heap: its columns and its rows.  A stage is given   *)
(* an object and returns an object, the one it was given or one it has     *)
(* created.                                                                *)
(***************************************************************************)
MaxObjects == 3

Object(columns, rows) == [columns |-> columns, rows |-> rows]

SchemaColumns == {"Total_Investment_USD", "Financial_Risk_Level", "Overall_ESG_Score"}

\* the row without one of its columns
without(row, column) == [c \in (DOMAIN row) \ {column} |-> row[c]]

\* the row with one more column
with(row, column, cell) ==
    [c \in (DOMAIN row) \cup {column} |-> IF c = column THEN cell ELSE row[c]]

\* the collections the stages are given first: the catalog, parts of it down
\* to the empty subset, and the catalog without its cost attribute
InitialObjects ==
    {Object(SchemaColumns, SubSeq(df_esg, 1, n)) : n \in 0..Len(df_esg)}
    \cup {Object(SchemaColumns \ {"Total_Investment_USD"},
                 [i \in DOMAIN df_esg |-> without(df_esg[i], "Total_Investment_USD")])}

\* what a stage returns: the object given (same) or the contents of a new one
Given == [same |-> TRUE, obj |-> Object({}, <<>>)]
Created(obj) == [same |-> FALSE, obj |-> obj]

\* apply_filters: df.copy(), then one new frame for each filter applied
filter_stage(obj, filters) ==
    IF filters = <<>> \/ obj.rows = <<>> THEN Created(obj)
    ELSE LET kept == apply_filters(obj.rows, filters)
         IN Created(Object(obj.columns, [k \in DOMAIN kept |-> obj.rows[kept[k]]]))

\* score_projects: the frame itself when it is empty, else a copy with the
\* Composite_Score column
score_stage(obj, weights) ==
    IF obj.rows = <<>> THEN Given
    ELSE LET all == [i \in DOMAIN obj.rows |-> i]
             composite == Composite_Score(obj.rows, all, weights)
         IN Created(Object(obj.columns \cup {"Composite_Score"},
                [k \in DOMAIN obj.rows |->
                    with(obj.rows[k], "Composite_Score", PyNum(composite[k]))]))

\* optimize_projects: a new empty frame for an empty frame, the frame itself
\* when the score or the cost column is missing, else the selection; each
\* result comes with the call that produced it
optimize_stage(obj, budget, method, outcome) ==
    IF obj.rows = <<>>
    THEN {[call |-> c, result |-> Created(Object({}, <<>>))]
            : c \in OptimizeEmpty(budget, method)}
    ELSE IF "Composite_Score" \notin obj.columns
            \/ "Total_Investment_USD" \notin obj.columns
    THEN {[call |-> NoCall, result |-> Given]}
    ELSE LET d == [k \in DOMAIN obj.rows |->
                      Row(obj.rows[k]["Total_Investment_USD"].n,
                          obj.rows[k]["Composite_Score"].n)]
         IN {[call |-> c,
              result |-> IF c.returned = <<>> THEN Created(Object({}, <<>>))
                         ELSE Created(Object(obj.columns \cup {"Selection_Weight"},
                                [k \in DOMAIN c.returned |->
                                    with(obj.rows[c.returned[k].idx], "Selection_Weight",
                                         c.returned[k].Selection_Weight)]))]
                : c \in optimize_projects(d, budget, method, outcome)}

\* the heap and the record of the call after a stage has returned
Returned(stage, input, result) ==
    /\ heap' = IF result.same THEN heap ELSE Append(heap, result.obj)
    /\ stageCall' = [stage |-> stage, input |-> input,
                     output |-> IF result.same THEN input ELSE Len(heap) + 1,
                     before |-> heap[input]]

otherThanStage == <<df, lastCall, summary, called, greedyRun, filterVars, pipeVars,
                    scoreVars, postVars>>

CallApplyFilters ==
    /\ Len(heap) < MaxObjects
    /\ \E input \in DOMAIN heap, filters \in ParsedFilters :
          Returned("apply_filters", input, filter_stage(heap[input], filters))
    /\ UNCHANGED <<optimization_results, otherThanStage>>

CallScoreProjects ==
    /\ Len(heap) < MaxObjects
    /\ \E input \in DOMAIN heap, weights \in WeightDicts \cup {default_weights} :
          Returned("score_projects", input, score_stage(heap[input], weights))
    /\ UNCHANGED <<optimization_results, otherThanStage>>

CallOptimizeProjects ==
    /\ Len(heap) < MaxObjects
    /\ \E input \in DOMAIN heap, budget \in PipelineBudgets, method \in Methods,
          outcome \in SolverOutcomes :
          \E r \in optimize_stage(heap[input], budget, method, outcome) :
             /\ Returned("optimize_projects", input, r.result)
             /\ optimization_results' = results_after(r.call, optimization_results)
    /\ UNCHANGED otherThanStage

InitStages ==
    /\ heap \in {<<obj>> : obj \in InitialObjects}
    /\ stageCall = NoStageCall
    /\ scoreRun = NoScoreRun
    /\ postRun = NoPostRun
    /\ invocations = NoInvocations
    /\ catalog = <<>>
    /\ filterRun = NoFilterRun
    /\ df = <<>>
    /\ optimization_results = NoResults
    /\ lastCall = NoCall
    /\ summary = NoSummary
    /\ called = FALSE
    /\ greedyRun = NoRun

NextStages == CallApplyFilters \/ CallScoreProjects \/ CallOptimizeProjects

SpecStages == InitStages /\ [][NextStages]_vars

\* C13: a stage leaves the collection it is given as it was and returns a
\* collection that is not the object it was given, whatever the input: an
\* empty subset, an empty filter spec, a subset without the score or the cost
\* attribute.
C13_StagesReturnNewCollection ==
    stageCall.stage # "none" =>
        /\ heap[stageCall.input] = stageCall.before
        /\ stageCall.output # stageCall.input

(***************************************************************************)
(* ProjectScorer on its own: score_projects on a subset, then              *)
(* rank_projects on the scored subset.                                     *)
(***************************************************************************)
EsgValues == {0, 50, 100}
RiskLevels == {Low, Medium, High}

\* a level that is not a key of risk_mapping, and a missing value
Severe == <<"S", "e", "v", "e", "r", "e">>
NaN == [t |-> "nan", n |-> 0, s |-> <<>>, l |-> <<>>]

\* records with each level and each score, and records with the unrecognized
\* level and with the missing value
ScoreRows ==
    {PipelineRow(1, r, e) : r \in RiskLevels, e \in EsgValues}
    \cup {[PipelineRow(1, Low, 50) EXCEPT !["Financial_Risk_Level"] = cell]
            : cell \in {PyStr(Severe), NaN}}

\* three records whose values all differ
ScenarioCatalog ==
    <<PipelineRow(1, Low, 0), PipelineRow(1, Medium, 50), PipelineRow(1, High, 100)>>

\* the subsets given to the scorer: with the default attribute, and without
ScoreCatalogs ==
    SeqsUpTo(ScoreRows, MaxRecords)
    \cup SeqsUpTo({without(row, "Overall_ESG_Score") : row \in ScoreRows}, MaxRecords)
    \cup {ScenarioCatalog}

\* rank_projects on the composite scores: sort_values(ascending=False), then
\* Rank = 1..n in the sorted order; one result for each order the sort can
\* give
rank_projects(composite) ==
    {[pos \in DOMAIN order |->
        [idx |-> order[pos], Composite_Score |-> composite[order[pos]], Rank |-> pos]]
      : order \in DescendingOrders([k \in DOMAIN composite |-> Q(composite[k], 1)])}

otherThanScore == <<optVars, catalog, filterRun, pipeVars, stageVars, postVars>>

\* the call score_projects(catalog[rows], weights) as scoreRun records it
scored_as(phase, rows, weights) ==
    [phase |-> phase, weights |-> weights, rows |-> rows,
     normalized |-> normalized_data(catalog, rows, scoring_items(catalog, weights)),
     composite |-> Composite_Score(catalog, rows, weights),
     ranked |-> <<>>]

ScoreProjects ==
    /\ scoreRun.phase = "none"
    /\ \E weights \in AllWeightDicts :
          scoreRun' = scored_as("scored", [i \in DOMAIN catalog |-> i], weights)
    /\ UNCHANGED otherThanScore

\* score_projects on a filtered subset: some records of the catalog, in
\* catalog order
ScoreSubset ==
    /\ scoreRun.phase = "none"
    /\ \E S \in (SUBSET DOMAIN catalog) \ {{}, DOMAIN catalog},
          weights \in AllWeightDicts :
          scoreRun' = scored_as("subset", mask_indices(S, 1, Len(catalog)), weights)
    /\ UNCHANGED otherThanScore

\* rank_projects of the scored subset
RankProjects ==
    /\ scoreRun.phase = "scored"
    /\ \E ranked \in rank_projects(scoreRun.composite) :
          scoreRun' = [scoreRun EXCEPT !.phase = "ranked", !.ranked = ranked]
    /\ UNCHANGED otherThanScore

\* rank_projects of a subset without the score column: return df
RankUnscored ==
    /\ scoreRun.phase = "none"
    /\ scoreRun' = [scoreRun EXCEPT !.phase = "not_ranked"]
    /\ UNCHANGED otherThanScore

InitScore ==
    /\ catalog \in ScoreCatalogs
    /\ scoreRun = NoScoreRun
    /\ heap = NoHeap
    /\ stageCall = NoStageCall
    /\ postRun = NoPostRun
    /\ invocations = NoInvocations
    /\ filterRun = NoFilterRun
    /\ df = <<>>
    /\ optimization_results = NoResults
    /\ lastCall = NoCall
    /\ summary = NoSummary
    /\ called = FALSE
    /\ greedyRun = NoRun

NextScore == ScoreProjects \/ ScoreSubset \/ RankProjects \/ RankUnscored

SpecScore == InitScore /\ [][NextScore]_vars

Scored == scoreRun.phase \in {"scored", "ranked"}

\* C14: for a non-empty subset and a weight map of non-negative weights
\* (all attributes missing and all weights zero included), every composite
\* score is in [0, 100].
C14_ScoreInRange ==
    Scored =>
        \A k \in DOMAIN scoreRun.composite :
            /\ scoreRun.composite[k] >= 0
            /\ scoreRun.composite[k] <= 100 * ScoreUnit(catalog)

C14_Witness ==
    /\ scoreRun.phase = "scored"
    /\ Len(catalog) = 2
    /\ Len(scoreRun.weights) = 2
    /\ \A k \in DOMAIN scoreRun.weights : scoreRun.weights[k].weight = 0
    /\ scoreRun.composite[1] = 100 * ScoreUnit(catalog)
    /\ scoreRun.composite[2] = 50 * ScoreUnit(catalog)

\* C15: when no entry of the weight map names an attribute of the subset,
\* score_projects gives every record the value of its Overall_ESG_Score as
\* composite score (0 when the subset has no such attribute).
C15_FallbackToDefaultAttribute ==
    (/\ Scored
     /\ \A k \in DOMAIN scoreRun.weights :
            scoreRun.weights[k].column \notin DOMAIN catalog[1])
    => \A i \in DOMAIN catalog :
          scoreRun.composite[i]
              = (IF "Overall_ESG_Score" \in DOMAIN catalog[1]
                 THEN catalog[i]["Overall_ESG_Score"].n ELSE 0) * ScoreUnit(catalog)

C15_Witness ==
    /\ scoreRun.phase = "scored"
    /\ Len(scoreRun.weights) = 1
    /\ scoreRun.weights[1].column \notin DOMAIN catalog[1]
    /\ Len(catalog) = 2
    /\ scoreRun.composite[1] = 50 * ScoreUnit(catalog)
    /\ scoreRun.composite[2] = 100 * ScoreUnit(catalog)

\* C16: rank_projects returns the same records in descending order of
\* composite score with ranks 1..n in that order, records of equal score in
\* their original order.
C16_RankStableDescending ==
    scoreRun.phase = "ranked" =>
        LET ranked == scoreRun.ranked IN
        /\ {ranked[pos].idx : pos \in DOMAIN ranked} = DOMAIN catalog
        /\ Len(ranked) = Len(catalog)
        /\ \A pos \in DOMAIN ranked :
              /\ ranked[pos].Rank = pos
              /\ ranked[pos].Composite_Score = scoreRun.composite[ranked[pos].idx]
        /\ \A i, j \in DOMAIN ranked :
              i < j =>
                 \/ ranked[i].Composite_Score > ranked[j].Composite_Score
                 \/ /\ ranked[i].Composite_Score = ranked[j].Composite_Score
                    /\ ranked[i].idx < ranked[j].idx

\* score_projects has been called, on the catalog or on a subset of it
Normalized == scoreRun.phase \in {"scored", "subset"}

\* the valid entries of the weight map of the call
ValidItems == scoring_items(catalog, scoreRun.weights)

\* 100 x sum(normalized_i x w_i) for the record at position k, in multiples
\* of 1/ScoreUnit
RECURSIVE WeightedSum(_, _)
WeightedSum(items, k) ==
    IF items = <<>> THEN 0
    ELSE LET n == scoreRun.normalized[Head(items).column][k]
         IN 100 * Head(items).weight * n.num * (ScoreUnit(catalog) \div n.den)
            + WeightedSum(Tail(items), k)

\* b is a with every weight multiplied by 2, or the reverse, or a itself
Proportional(a, b) ==
    /\ Len(a) = Len(b)
    /\ \A i \in DOMAIN a : a[i].column = b[i].column
    /\ \/ \A i \in DOMAIN a : b[i].weight = a[i].weight
       \/ \A i \in DOMAIN a : b[i].weight = 2 * a[i].weight
       \/ \A i \in DOMAIN a : a[i].weight = 2 * b[i].weight

\* C26: when the weights of the valid attributes sum to more than 0, each
\* composite score is 100 x sum(normalized_i x w_i) / sum(w_i), and the weight
\* map with every weight multiplied by the same constant gives the same
\* scores.
C26_WeightedMeanOfNormalized ==
    (Normalized /\ total_weight(ValidItems) > 0) =>
        /\ \A k \in DOMAIN scoreRun.rows :
              scoreRun.composite[k] * total_weight(ValidItems)
                  = WeightedSum(ValidItems, k)
        /\ \A weights \in AllWeightDicts :
              Proportional(scoreRun.weights, weights) =>
                  Composite_Score(catalog, scoreRun.rows, weights) = scoreRun.composite

\* weights 150 and 50, which do not sum to 100: the scores are 25 and 75
C26_Witness ==
    /\ scoreRun.phase = "scored"
    /\ Len(catalog) = 2
    /\ Len(scoreRun.weights) = 2
    /\ scoreRun.weights[1].weight = 150
    /\ scoreRun.weights[2].weight = 50
    /\ scoreRun.composite[1] = 25 * ScoreUnit(catalog)
    /\ scoreRun.composite[2] = 75 * ScoreUnit(catalog)

\* the column of the scored records before normalization
ScoredColumn(column) == col_data(catalog, scoreRun.rows, column)

\* C27: each valid attribute is min-max normalized over the records that
\* are scored, not over the catalog: when the values differ, the records with
\* the smallest value get 0, those with the largest get 1 and the others
\* values in between, in the order of the values; when all the values are
\* equal (a single record included) every record gets 1.
C27_MinMaxOverSubset ==
    Normalized =>
        \A column \in DOMAIN scoreRun.normalized :
            LET col == ScoredColumn(column)
                n == scoreRun.normalized[column]
            IN /\ DOMAIN n = DOMAIN scoreRun.rows
               /\ IF \E j, k \in DOMAIN col : col[j] # col[k]
                  THEN \A k \in DOMAIN col :
                          /\ n[k].den > 0
                          /\ QGe(n[k], Zero) /\ QLe(n[k], One)
                          /\ (\A j \in DOMAIN col : col[k] <= col[j]) => n[k].num = 0
                          /\ (\A j \in DOMAIN col : col[k] >= col[j]) => n[k].num = n[k].den
                          /\ \A j \in DOMAIN col : col[j] <= col[k] => QLe(n[j], n[k])
                  ELSE \A k \in DOMAIN col : n[k] = One

\* the subset is the records with values 50 and 100 of a catalog whose
\* minimum is 0: the record with 50 gets 0
C27_Witness ==
    /\ scoreRun.phase = "subset"
    /\ catalog = ScenarioCatalog
    /\ scoreRun.rows = <<2, 3>>
    /\ "Overall_ESG_Score" \in DOMAIN scoreRun.normalized
    /\ scoreRun.normalized["Overall_ESG_Score"][1].num = 0
    /\ scoreRun.normalized["Overall_ESG_Score"][2] = Q(50, 50)

\* how favorable a risk level is: Low above Medium above High, and a missing
\* or unrecognized level with High
Favorable(cell) ==
    IF cell = PyStr(Low) THEN 3 ELSE IF cell = PyStr(Medium) THEN 2 ELSE 1

\* C28: in a risk attribute used for scoring a more favorable level never
\* gets a lower normalized value than a less favorable one, within any set
\* of scored records, and a missing or unrecognized level gets the value
\* High gets.
C28_RiskLevelsOrdered ==
    Normalized =>
        \A column \in (DOMAIN scoreRun.normalized) \cap RiskColumns :
            \A j, k \in DOMAIN scoreRun.rows :
                Favorable(catalog[scoreRun.rows[j]][column])
                    >= Favorable(catalog[scoreRun.rows[k]][column])
                => QGe(scoreRun.normalized[column][j], scoreRun.normalized[column][k])

\* an unrecognized level next to Low: 0 and 1
C28_Witness ==
    /\ scoreRun.phase = "scored"
    /\ Len(catalog) = 2
    /\ catalog[1]["Financial_Risk_Level"] = PyStr(Severe)
    /\ catalog[2]["Financial_Risk_Level"] = PyStr(Low)
    /\ "Financial_Risk_Level" \in DOMAIN scoreRun.normalized
    /\ scoreRun.normalized["Financial_Risk_Level"] = <<Q(0, 2), Q(2, 2)>>

(***************************************************************************)
(* ProjectOptimizer.optimize_with_constraints and _apply_constraint.  The  *)
(* scored subset has, besides cost and score, the Financial_Risk_Level and *)
(* Sector columns.  A portfolio is a sequence of selected records, each    *)
(* with idx, its row in the scored subset.                                 *)
(***************************************************************************)
PostRow(c, s, r, sec) == [cost |-> c, score |-> s, risk |-> r, sector |-> sec]

\* three High records, two of them with the same score, and two Low records,
\* in two sectors
ScenarioPortfolio ==
    <<PostRow(2, 3, High, "Energy"), PostRow(1, 1, High, "Energy"),
      PostRow(1, 2, Low, "Water"), PostRow(1, 1, High, "Water"),
      PostRow(2, 2, Low, "Energy")>>

\* the scored subsets: the scenario and the subsets of its records
PostDfs ==
    {[k \in DOMAIN mask_indices(S, 1, Len(ScenarioPortfolio)) |->
        ScenarioPortfolio[mask_indices(S, 1, Len(ScenarioPortfolio))[k]]]
      : S \in (SUBSET DOMAIN ScenarioPortfolio) \ {{}}}

PostBudgets == 1..MaxBudget \cup {SeqSum(ScenarioPortfolio, "cost")}

\* constraint_params.get(key, default)
get(params, key, default) ==
    IF key \in DOMAIN params THEN params[key] ELSE default

Constraint(name, params) == [name |-> name, params |-> params]
NoParams == <<>>

SectorConstraints ==
    {Constraint("sector_diversity", [min_sectors |-> n]) : n \in {1, 3}}
    \cup {Constraint("sector_diversity", NoParams)}
RiskConstraints ==
    {Constraint("risk_limit", [max_high_risk |-> n]) : n \in {0, 1}}
    \cup {Constraint("risk_limit", NoParams)}
OtherConstraints == {Constraint("max_projects", [limit |-> 1])}

\* additional_constraints: None, or a dictionary (the sequence of its items,
\* one for each name)
AdditionalConstraints ==
    {<<>>}
    \cup {<<c>> : c \in SectorConstraints \cup RiskConstraints \cup OtherConstraints}
    \cup {<<a, b>> : a \in SectorConstraints, b \in RiskConstraints}
    \cup {<<b, a>> : a \in SectorConstraints, b \in RiskConstraints}

\* df[mask] on a portfolio, mask the set of the idx to keep
RECURSIVE select_records(_, _)
select_records(portfolio, mask) ==
    IF portfolio = <<>> THEN <<>>
    ELSE (IF Head(portfolio).idx \in mask THEN <<Head(portfolio)>> ELSE <<>>)
         \o select_records(Tail(portfolio), mask)

nlargest_pick_mut(portfolio) ==
    CHOOSE k \in DOMAIN portfolio :
        \A j \in DOMAIN portfolio :
            \/ portfolio[k].score < portfolio[j].score
            \/ portfolio[k].score = portfolio[j].score /\ k <= j
\* the position nlargest takes first: the largest score, and among equal
\* scores the first record (keep='first')
nlargest_pick(portfolio) ==
    CHOOSE k \in DOMAIN portfolio :
        \A j \in DOMAIN portfolio :
            \/ portfolio[k].score > portfolio[j].score
            \/ portfolio[k].score = portfolio[j].score /\ k <= j

\* portfolio.nlargest(n, 'Composite_Score')
RECURSIVE nlargest(_, _)
nlargest(portfolio, n) ==
    IF n <= 0 \/ portfolio = <<>> THEN <<>>
    ELSE LET k == nlargest_pick(portfolio)
         IN <<portfolio[k]>>
            \o nlargest(SubSeq(portfolio, 1, k - 1)
                        \o SubSeq(portfolio, k + 1, Len(portfolio)), n - 1)

concat_mut(frames) == frames[1] \o frames[2] \o frames[2]
\* pd.concat([a, b])
concat(frames) == frames[1] \o frames[2]

\* df['Sector'].nunique()
unique_sectors(frame, portfolio) ==
    Cardinality({frame[portfolio[k].idx].sector : k \in DOMAIN portfolio})

diversity_result_mut(portfolio, short) == IF short THEN <<>> ELSE portfolio
\* what the sector_diversity branch leaves in df, whether or not the
\* portfolio is short of sectors
diversity_result(portfolio, short) == portfolio

\* _apply_constraint(df, constraint_name, constraint_params): the portfolio
\* returned, and whether a warning was printed
apply_constraint(frame, portfolio, constraint) ==
    LET is_high == {i \in DOMAIN frame : frame[i].risk = High}
        not_high == {i \in DOMAIN frame : frame[i].risk # High}
    IN
    IF constraint.name = "sector_diversity" THEN
        LET min_sectors == get(constraint.params, "min_sectors", 2)
            short == unique_sectors(frame, portfolio) < min_sectors
        IN [df |-> diversity_result(portfolio, short), warned |-> short]
    ELSE IF constraint.name = "risk_limit" THEN
        LET max_high_risk == get(constraint.params, "max_high_risk", 2)
            high_risk_projects == select_records(portfolio, is_high)
            low_risk_projects == select_records(portfolio, not_high)
        IN IF Len(high_risk_projects) > max_high_risk
           THEN [df |-> concat(<<low_risk_projects,
                                  nlargest(high_risk_projects, max_high_risk)>>),
                 warned |-> FALSE]
           ELSE [df |-> portfolio, warned |-> FALSE]
    ELSE [df |-> portfolio, warned |-> FALSE]

\* the loop over additional_constraints.items(): one step for each
\* constraint, with the portfolio given and the portfolio returned
RECURSIVE constraint_steps(_, _, _)
constraint_steps(frame, portfolio, constraints) ==
    IF constraints = <<>> THEN <<>>
    ELSE LET r == apply_constraint(frame, portfolio, Head(constraints))
         IN <<[constraint |-> Head(constraints), given |-> portfolio,
               returned |-> r.df, warned |-> r.warned]>>
            \o constraint_steps(frame, r.df, Tail(constraints))

otherThanPost == <<df, lastCall, summary, called, greedyRun, filterVars, pipeVars,
                   stageVars, scoreVars>>

\* optimize_with_constraints(df, budget, additional_constraints)
OptimizeWithConstraints ==
    /\ postRun.phase = "none"
    /\ \E budget \in PostBudgets, constraints \in AdditionalConstraints,
          outcome \in SolverOutcomes :
        LET d == [k \in DOMAIN df |-> Row(df[k].cost, df[k].score)] IN
        \E call \in optimize_projects(d, budget, "maximize_score", outcome) :
            LET steps == IF constraints # <<>> /\ call.returned # <<>>
                         THEN constraint_steps(df, call.returned, constraints)
                         ELSE <<>>
            IN /\ postRun' = [phase |-> "done", budget |-> budget,
                              constraints |-> constraints,
                              selection |-> call.returned, steps |-> steps,
                              result |-> IF steps = <<>> THEN call.returned
                                         ELSE steps[Len(steps)].returned]
               /\ optimization_results' = results_after(call, optimization_results)
    /\ UNCHANGED otherThanPost

\* get_optimization_summary after optimize_with_constraints
SummaryAfterConstraints ==
    /\ postRun.phase = "done"
    /\ ~summary.read
    /\ summary' = [value |-> optimization_results, read |-> TRUE]
    /\ UNCHANGED <<df, optimization_results, lastCall, called, greedyRun, filterVars,
                   pipeVars, auxVars>>

InitPost ==
    /\ df \in PostDfs
    /\ postRun = NoPostRun
    /\ scoreRun = NoScoreRun
    /\ heap = NoHeap
    /\ stageCall = NoStageCall
    /\ invocations = NoInvocations
    /\ catalog = <<>>
    /\ filterRun = NoFilterRun
    /\ optimization_results = NoResults
    /\ lastCall = NoCall
    /\ summary = NoSummary
    /\ called = FALSE
    /\ greedyRun = NoRun

NextPost == OptimizeWithConstraints \/ SummaryAfterConstraints

SpecPost == InitPost /\ [][NextPost]_vars

IdxOf(portfolio) == {portfolio[k].idx : k \in DOMAIN portfolio}
HighOf(portfolio) == {i \in IdxOf(portfolio) : df[i].risk = High}
RiskSteps ==
    {k \in DOMAIN postRun.steps : postRun.steps[k].constraint.name = "risk_limit"}
SectorSteps ==
    {k \in DOMAIN postRun.steps : postRun.steps[k].constraint.name = "sector_diversity"}
Cap(step) == get(step.constraint.params, "max_high_risk", 2)

\* C17: the risk cap m on a portfolio with h High records removes, when
\* m < h, exactly h - m High records, none of which scores more than a High
\* record it keeps, and keeps every other record; when h <= m the portfolio
\* is unchanged.
C17_RiskCapPrunesLowest ==
    \A k \in RiskSteps :
        LET step == postRun.steps[k]
            h == Cardinality(HighOf(step.given))
            m == Cap(step)
            removed == IdxOf(step.given) \ IdxOf(step.returned)
        IN IF h <= m THEN step.returned = step.given
           ELSE /\ IdxOf(step.returned) \subseteq IdxOf(step.given)
                /\ Len(step.returned) = Cardinality(IdxOf(step.returned))
                /\ removed \subseteq HighOf(step.given)
                /\ Cardinality(removed) = h - m
                /\ \A i \in removed, j \in HighOf(step.returned) :
                      df[i].score <= df[j].score

\* three High records and a cap of 1: the two lowest are removed
C17_Witness ==
    \E k \in RiskSteps :
        /\ Cardinality(HighOf(postRun.steps[k].given)) = 3
        /\ Cap(postRun.steps[k]) = 1
        /\ Len(postRun.steps[k].given) = 5
        /\ IdxOf(postRun.steps[k].returned) = {1, 3, 5}

\* C18: the diversity check returns the records it was given, whatever
\* min_sectors is, and does no more than warn when the portfolio has fewer
\* sectors.
C18_DiversityCheckOnlyWarns ==
    \A k \in SectorSteps :
        /\ postRun.steps[k].returned = postRun.steps[k].given
        /\ postRun.steps[k].warned
              = (unique_sectors(df, postRun.steps[k].given)
                    < get(postRun.steps[k].constraint.params, "min_sectors", 2))

\* min_sectors = 3 on a portfolio of two sectors
C18_Witness ==
    \E k \in SectorSteps :
        /\ unique_sectors(df, postRun.steps[k].given) = 2
        /\ get(postRun.steps[k].constraint.params, "min_sectors", 2) = 3
        /\ postRun.steps[k].warned
        /\ Len(postRun.steps[k].returned) >= 2

\* C19: the portfolio optimize_with_constraints returns is a subset of the
\* selection optimize_projects produced, so its total cost is not larger.
C19_ConstraintsOnlyRemove ==
    postRun.phase = "done" =>
        /\ IdxOf(postRun.result) \subseteq IdxOf(postRun.selection)
        /\ Len(postRun.result) = Cardinality(IdxOf(postRun.result))
        /\ SeqSum(postRun.result, "cost") <= SeqSum(postRun.selection, "cost")

C19_Witness ==
    /\ postRun.phase = "done"
    /\ Len(postRun.constraints) = 2
    /\ Len(postRun.steps) = 2
    /\ Len(postRun.selection) = 4
    /\ Len(postRun.result) = 2
    /\ SeqSum(postRun.result, "cost") < SeqSum(postRun.selection, "cost")

====
